---- MODULE Spec2Model ----
(***************************************************************************)
(* Model of `ion dump` (src/bin/ion/commands/dump.rs): run makes one pass   *)
(* per input source; in a pass write_all_values drives an ion_rs Reader    *)
(* and an IonWriter in lock step, one call per step, with a periodic       *)
(* flush every FLUSH_EVERY_N top-level values.                             *)
(***************************************************************************)
EXTENDS Integers, Sequences, FiniteSets, TLC

VARIABLES
    profile,            \* which family of input streams this run draws from
    format,             \* the --format the Writer is built for
    inputs,             \* run: number of input files given, 0 to read stdin
    source,             \* run: sources opened so far
    writers,            \* history: Writers built so far
    prior,              \* history: value events the output received in earlier passes
    consumed,           \* history: events each earlier pass's Reader delivered
    pc,                 \* position of run and write_all_values
    result,             \* "none" while running, then "Ok" or the failed call
    rstack,             \* Reader: kinds of the containers stepped into
    cur,                \* Reader: descriptor of the current value
    rcount,             \* Reader: values of the stream charged to its length bound
    rnested,            \* Reader: values delivered below the current top-level value
    rann,               \* Reader: annotations of the stream charged to its bound
    values_since_flush, \* local of write_all_values
    annotations,        \* local of write_all_values (the reusable Vec)
    scalar,             \* the scalar just read from the Reader
    wstack,             \* Writer: kinds of the open containers
    wann,               \* Writer: annotations attached to the next emission
    wfield,             \* Writer: field name attached to the next emission
    emitted,            \* Writer: the last value event it accepted
    delivered,          \* history: events the Reader delivered
    output,             \* history: value events the Writer accepted
    wlog,               \* history: Writer calls that succeeded
    topDone,            \* history: top-level values fully emitted
    sinceFlush,         \* history: top-level values fully emitted since the last flush
    flushes,            \* history: intermediate flushes that succeeded
    finals,             \* history: final flushes that succeeded
    failed              \* history: the call that failed, "" if none

vars == << profile, format, inputs, source, writers, prior, consumed, pc, result, rstack, cur, rcount, rnested, rann, values_since_flush,
           annotations, scalar, wstack, wann, wfield, emitted, delivered, output,
           wlog, topDone, sinceFlush, flushes, finals, failed >>

-----------------------------------------------------------------------------
(* Bounds of the input streams.                                            *)

MaxValues == 3          \* values of a stream of the "nesting" profile
MaxDepth == 2           \* nesting depth of a stream of the "nesting" profile
MaxAnnValues == 2       \* values of a stream of the "annotated" profile
MaxAnn == 2             \* annotations of a stream of the "annotated" profile
MaxTopLong == 101       \* top-level values of a stream of the "cadence" profile
MaxFloatValues == 1     \* values of a stream of the "float" profile
MaxSources == 2         \* input files of a run of the "sources" profile
MaxSourceValues == 2    \* values of all streams of a run of the "sources" profile

FLUSH_EVERY_N == 100

-----------------------------------------------------------------------------
(* 64-bit and 32-bit IEEE 754 values, by their fields.  A 64-bit value is  *)
(* sign s, biased exponent e (11 bits) and a 52-bit fraction kept as its   *)
(* upper 23 bits hi and lower 29 bits lo; a 32-bit value has an 8-bit      *)
(* exponent and the 23-bit fraction in hi (lo = 0).                        *)

Pow2(n) == 2 ^ n

F64(s, e, hi, lo) == [w |-> 64, s |-> s, e |-> e, hi |-> hi, lo |-> lo]
F32(s, e, m) == [w |-> 32, s |-> s, e |-> e, hi |-> m, lo |-> 0]
NoPayload == [w |-> 0, s |-> 0, e |-> 0, hi |-> 0, lo |-> 0]

IsNaN64(x) == x.e = 2047 /\ (x.hi # 0 \/ x.lo # 0)
IsZero64(x) == x.e = 0 /\ x.hi = 0 /\ x.lo = 0

\* Round to nearest, ties to even: q is the kept part, up says the dropped
\* part is above one half, tie that it is exactly one half.
RoundEven(q, up, tie) == IF up \/ (tie /\ q % 2 = 1) THEN q + 1 ELSE q

\* A 32-bit exponent/fraction pair from a fraction that may have carried.
PackF32(s, e, m) ==
    IF m = Pow2(23) THEN (IF e + 1 >= 255 THEN F32(s, 255, 0) ELSE F32(s, e + 1, 0))
    ELSE IF e >= 255 THEN F32(s, 255, 0)
    ELSE F32(s, e, m)

\* `float64 as f32`
CastF64ToF32(x) ==
    IF x.e = 2047 THEN
        IF x.hi = 0 /\ x.lo = 0 THEN F32(x.s, 255, 0)
        ELSE F32(x.s, 255, IF x.hi >= Pow2(22) THEN x.hi ELSE x.hi + Pow2(22))
    ELSE IF x.e = 0 THEN F32(x.s, 0, 0)
    ELSE IF x.e - 1023 > 127 THEN F32(x.s, 255, 0)
    ELSE IF x.e - 1023 >= -126 THEN
        PackF32(x.s, x.e - 1023 + 127,
                RoundEven(x.hi, x.lo > Pow2(28), x.lo = Pow2(28)))
    ELSE IF x.e - 1023 < -150 THEN F32(x.s, 0, 0)
    ELSE
        LET j == 0 - (x.e - 1023) - 126
            sig == Pow2(23) + x.hi
            q == sig \div Pow2(j)
            r == sig % Pow2(j)
            half == Pow2(j - 1)
        IN  PackF32(x.s, 0,
                    RoundEven(q, r > half \/ (r = half /\ x.lo > 0),
                              r = half /\ x.lo = 0))

\* position of the highest set bit of m > 0
RECURSIVE TopBit(_)
TopBit(m) == IF m <= 1 THEN 0 ELSE 1 + TopBit(m \div 2)

\* `float32 as f64`
CastF32ToF64(y) ==
    IF y.e = 255 THEN
        IF y.hi = 0 THEN F64(y.s, 2047, 0, 0)
        ELSE F64(y.s, 2047, IF y.hi >= Pow2(22) THEN y.hi ELSE y.hi + Pow2(22), 0)
    ELSE IF y.e = 0 THEN
        IF y.hi = 0 THEN F64(y.s, 0, 0, 0)
        ELSE LET p == TopBit(y.hi)
             IN  F64(y.s, p + 874, (y.hi - Pow2(p)) * Pow2(23 - p), 0)
    ELSE F64(y.s, y.e - 127 + 1023, y.hi, 0)

\* `a == b` on f64
F64Eq(a, b) ==
    IF IsNaN64(a) \/ IsNaN64(b) THEN FALSE
    ELSE IF IsZero64(a) /\ IsZero64(b) THEN TRUE
    ELSE a = b

\* mutant: the round-trip check is dropped and every float is narrowed
NarrowFloatAlways(float64) == CastF64ToF32(float64)

\* mutant: every float whose cast to 32 bits did not overflow is narrowed
NarrowFloatIfFinite(float64) ==
    LET float32 == CastF64ToF32(float64)
    IN  IF float32.e # 255 THEN float32 ELSE float64

\* the value handed to the Writer for a float read as float64
NarrowFloat(float64) ==
    LET float32 == CastF64ToF32(float64)
    IN  IF F64Eq(CastF32ToF64(float32), float64) THEN float32 ELSE float64

-----------------------------------------------------------------------------
(* The value model: IonType, value descriptors, events.                    *)

ScalarTypes == {"Boolean", "Integer", "Float", "Decimal", "Timestamp",
                "Symbol", "String", "Clob", "Blob"}
ContainerTypes == {"List", "SExpression", "Struct"}
IonTypes == {"Null"} \cup ScalarTypes \cup ContainerTypes

Symbols == {"a", "b"}
FieldNames == {"f", "g"}
NoField == ""
NoType == ""

Value(t, n, a, f, p) ==
    [k |-> "value", type |-> t, null |-> n, ann |-> a, field |-> f, payload |-> p]
EndOfContainer ==
    [k |-> "end", type |-> NoType, null |-> FALSE, ann |-> << >>, field |-> NoField,
     payload |-> NoPayload]
NoValue ==
    [k |-> "none", type |-> NoType, null |-> FALSE, ann |-> << >>, field |-> NoField,
     payload |-> NoPayload]

\* a Writer call, as recorded in wlog
Call(op, t, a, f, p) == [op |-> op, type |-> t, ann |-> a, field |-> f, payload |-> p]

SeqsUpTo(S, n) == UNION { [1..m -> S] : m \in 0..n }

-----------------------------------------------------------------------------
(* The input streams of each profile.                                      *)

Profiles == {"nesting", "annotated", "cadence", "float", "sources"}

\* 1.0 (exact in 32 bits) and 0.1 (not)
FloatOne == F64(0, 1023, 0, 0)
FloatTenth == F64(0, 1019, 5033164, 429496730)

\* exponents around the 32-bit format's limits, fractions around its rounding
FloatExps == {0, 872, 873, 874, 896, 897, 1023, 1150, 1151, 2047}
FloatHis == {0, 1, 4194304, 8388607}
FloatLos == {0, 1, 268435456, 268435457}
FloatInputs ==
    { F64(s, e, hi, lo) : s \in {0, 1}, e \in FloatExps, hi \in FloatHis, lo \in FloatLos }

TypesOf(p) ==
    IF p = "nesting" THEN {"Null", "Boolean", "List", "SExpression", "Struct"}
    ELSE IF p = "float" THEN {"Float", "Struct"}
    ELSE {"Boolean", "Struct"}

\* the annotated streams bound their annotations in total
AnnsOf(p, used) ==
    IF p = "annotated" THEN SeqsUpTo(Symbols, MaxAnn - used) ELSE {<< >>}

FieldsOf(p) == IF p = "nesting" THEN FieldNames ELSE {"f"}

PayloadsOf(p, t, n) ==
    IF n \/ t # "Float" THEN {NoPayload}
    ELSE IF p = "float" THEN FloatInputs
    ELSE {FloatOne, FloatTenth}

MaxValuesOf(p) ==
    IF p = "nesting" THEN MaxValues
    ELSE IF p = "annotated" THEN MaxAnnValues
    ELSE IF p = "cadence" THEN MaxTopLong
    ELSE IF p = "sources" THEN MaxSourceValues
    ELSE MaxFloatValues

MaxDepthOf(p) == IF p = "nesting" THEN MaxDepth ELSE 1

\* the long streams bound their top-level values and give a container one child
ChargesNested(p) == p # "cadence"
MaxNestedOf(p) == IF p = "cadence" THEN 1 ELSE MaxValuesOf(p)

Formats == {"pretty", "text", "lines", "binary"}

\* the short streams are written in every format, the others in the default
FormatsOf(p) == IF p \in {"nesting", "annotated"} THEN Formats ELSE {"pretty"}

\* the histories are kept for the short streams only
Records(p) == p \in {"nesting", "annotated", "sources"}

\* the input files given on the command line; none means stdin
InputsOf(p) == IF p = "sources" THEN 0..MaxSources ELSE {1}

\* the passes run makes: one per input file, or the one over stdin
NumSources == IF inputs = 0 THEN 1 ELSE inputs

-----------------------------------------------------------------------------
(* Reader and Writer state read by write_all_values.                       *)

Depth(stack) == Len(stack)
ParentType(stack) == IF Len(stack) = 0 THEN NoType ELSE stack[Len(stack)]
Pop(stack) == SubSeq(stack, 1, Len(stack) - 1)

Log(history, x) == IF Records(profile) THEN Append(history, x) ELSE history

\* the fallible call write_all_values makes next, "" if the step makes none
PendingCall ==
    CASE pc = "open" -> "reader.build"
      [] pc = "build" -> "writer.build"
      [] pc = "next" -> "reader.next"
      [] pc = "annot" -> IF cur.ann # << >> THEN "reader.annotations" ELSE ""
      [] pc = "field" -> IF ParentType(rstack) = "Struct" THEN "reader.field_name" ELSE ""
      [] pc = "value" -> IF cur.null THEN "writer.write_null"
                         ELSE IF cur.type \in ContainerTypes THEN "reader.step_in"
                         ELSE "reader.read"
      [] pc = "write" -> "writer.write"
      [] pc = "wstepin" -> "writer.step_in"
      [] pc = "rstepout" -> "reader.step_out"
      [] pc = "wstepout" -> "writer.step_out"
      [] pc = "flush" -> "writer.flush"
      [] pc = "final" -> "writer.flush"
      [] pc = "done" -> IF result = "Ok" /\ source = NumSources THEN "output.flush" ELSE ""
      [] OTHER -> ""

Init(p) ==
    /\ profile = p
    /\ format \in FormatsOf(p)
    /\ inputs \in InputsOf(p)
    /\ source = 0
    /\ writers = 0
    /\ prior = << >>
    /\ consumed = << >>
    /\ pc = "open"
    /\ result = "none"
    /\ rstack = << >>
    /\ cur = NoValue
    /\ rcount = 0
    /\ rnested = 0
    /\ rann = 0
    /\ values_since_flush = 0
    /\ annotations = << >>
    /\ scalar = NoPayload
    /\ wstack = << >>
    /\ wann = << >>
    /\ wfield = NoField
    /\ emitted = NoValue
    /\ delivered = << >>
    /\ output = << >>
    /\ wlog = << >>
    /\ topDone = 0
    /\ sinceFlush = 0
    /\ flushes = 0
    /\ finals = 0
    /\ failed = ""

readerVars == << rstack, cur, rcount, rnested, rann, delivered >>
writerVars == << wstack, wann, wfield, emitted, output, wlog, topDone, sinceFlush,
                 flushes, finals >>
localVars == << values_since_flush, annotations, scalar >>
runVars == << inputs, source, writers, prior, consumed >>

\* the Writer accepts a value event: the attached annotations and field name
\* go with it, and a value written at depth 0 is a finished top-level value
Emit(call, t, n, p, finished) ==
    LET ev == Value(t, n, wann, wfield, p)
    IN  /\ emitted' = ev
        /\ output' = Log(output, ev)
        /\ wlog' = Log(wlog, Call(call, t, << >>, NoField, p))
        /\ wann' = << >>
        /\ wfield' = NoField
        /\ topDone' = IF finished THEN topDone + 1 ELSE topDone
        /\ sinceFlush' = IF finished THEN sinceFlush + 1 ELSE sinceFlush

\* mutant: a failing flush is logged but not propagated
OperationFailsFlushIgnored ==
    /\ PendingCall # ""
    /\ failed' = PendingCall
    /\ pc' = IF pc = "flush" THEN "next" ELSE "done"
    /\ result' = IF pc = "flush" THEN result ELSE IF pc = "final" THEN "Ok" ELSE PendingCall
    /\ IF pc = "annot"
       THEN \E j \in 1..Len(cur.ann) : annotations' = SubSeq(cur.ann, 1, j - 1)
       ELSE annotations' = annotations
    /\ UNCHANGED << profile, format, runVars, readerVars, writerVars, values_since_flush, scalar >>

\* mutant: on a failure the open containers are closed on the Writer
OperationFailsClosesContainers ==
    /\ PendingCall # ""
    /\ pc' = "done"
    /\ result' = PendingCall
    /\ failed' = PendingCall
    /\ IF pc = "annot"
       THEN \E j \in 1..Len(cur.ann) : annotations' = SubSeq(cur.ann, 1, j - 1)
       ELSE annotations' = annotations
    /\ wstack' = << >>
    /\ wlog' = wlog \o [i \in 1..Depth(wstack) |-> Call("step_out", NoType, << >>, NoField,
                                                    NoPayload)]
    /\ output' = output \o [i \in 1..Depth(wstack) |-> EndOfContainer]
    /\ UNCHANGED << profile, format, runVars, readerVars, wann, wfield, emitted, topDone,
                    sinceFlush, flushes, finals, values_since_flush, scalar >>

\* the `?` on a failing call: the pass returns the error
OperationFails ==
    /\ PendingCall # ""
    /\ pc' = "done"
    /\ result' = PendingCall
    /\ failed' = PendingCall
    /\ IF pc = "annot"
       THEN \E j \in 1..Len(cur.ann) : annotations' = SubSeq(cur.ann, 1, j - 1)
       ELSE annotations' = annotations
    /\ UNCHANGED << profile, format, runVars, readerVars, writerVars, values_since_flush, scalar >>

\* match format { .. => TextWriterBuilder/BinaryWriterBuilder .build(output)? }
BuildWriter ==
    /\ pc = "build"
    /\ format \in Formats
    /\ writers' = writers + 1
    /\ pc' = "next"
    /\ UNCHANGED << profile, format, inputs, source, prior, consumed, result, readerVars,
                    localVars, writerVars, failed >>

\* File::open(input_file)?, or stdin().lock(); ReaderBuilder::new().build(..)?
OpenSource ==
    /\ pc = "open"
    /\ source < NumSources
    /\ source' = source + 1
    /\ pc' = "build"
    /\ UNCHANGED << profile, format, inputs, writers, prior, consumed, result, readerVars,
                    localVars, writerVars, failed >>

\* reader.next() returns Value(ion_type) or Null(ion_type)
NextValue ==
    /\ pc = "next"
    /\ rcount < MaxValuesOf(profile)
    /\ Depth(rstack) > 0 => rnested < MaxNestedOf(profile)
    /\ \E t \in TypesOf(profile), n \in BOOLEAN, a \in AnnsOf(profile, rann) :
         /\ t = "Null" => n
         /\ (t \in ContainerTypes /\ ~n) => Depth(rstack) < MaxDepthOf(profile)
         /\ \E f \in (IF ParentType(rstack) = "Struct" THEN FieldsOf(profile)
                      ELSE {NoField}),
               p \in PayloadsOf(profile, t, n) :
              /\ cur' = Value(t, n, a, f, p)
              /\ rann' = IF Records(profile) THEN rann + Len(a) ELSE rann
              /\ delivered' = Log(delivered, Value(t, n, a, f, p))
    /\ rcount' = IF Depth(rstack) = 0 \/ ChargesNested(profile) THEN rcount + 1
                 ELSE rcount
    /\ rnested' = IF Depth(rstack) = 0 THEN 0 ELSE rnested + 1
    /\ pc' = "annot"
    /\ UNCHANGED << profile, format, runVars, result, rstack, localVars, writerVars, failed >>

\* reader.next() returns Nothing inside a container
NextEndOfContainer ==
    /\ pc = "next"
    /\ Depth(rstack) > 0
    /\ cur' = NoValue
    /\ delivered' = Log(delivered, EndOfContainer)
    /\ pc' = "rstepout"
    /\ UNCHANGED << profile, format, runVars, result, rstack, rcount, rnested, rann, localVars, writerVars,
                    failed >>

\* mutant: the loop breaks on every Nothing
NextEndOfStreamAnyDepth ==
    /\ pc = "next"
    /\ cur' = NoValue
    /\ pc' = "final"
    /\ UNCHANGED << profile, format, runVars, result, rstack, rcount, rnested, rann, delivered,
                    localVars, writerVars, failed >>

\* reader.next() returns Nothing at top level: break
NextEndOfStream ==
    /\ pc = "next"
    /\ Depth(rstack) = 0
    /\ cur' = NoValue
    /\ pc' = "final"
    /\ UNCHANGED << profile, format, runVars, result, rstack, rcount, rnested, rann, delivered, localVars,
                    writerVars, failed >>

\* mutant: annotations.clear() is missing
AnnotationsNotCleared ==
    /\ pc = "annot"
    /\ IF cur.ann # << >>
       THEN /\ annotations' = annotations \o cur.ann
            /\ wann' = annotations \o cur.ann
            /\ wlog' = Log(wlog, Call("set_annotations", NoType, annotations \o cur.ann,
                                      NoField, NoPayload))
       ELSE UNCHANGED << annotations, wann, wlog >>
    /\ pc' = "field"
    /\ UNCHANGED << profile, format, runVars, result, readerVars, values_since_flush, scalar, wstack,
                    wfield, emitted, output, topDone, sinceFlush, flushes, finals,
                    failed >>

\* mutant: the buffer is cleared for every value
AnnotationsClearedEveryValue ==
    /\ pc = "annot"
    /\ annotations' = cur.ann
    /\ IF cur.ann # << >>
       THEN /\ wann' = cur.ann
            /\ wlog' = Log(wlog, Call("set_annotations", NoType, cur.ann, NoField,
                                      NoPayload))
       ELSE UNCHANGED << wann, wlog >>
    /\ pc' = "field"
    /\ UNCHANGED << profile, format, runVars, result, readerVars, values_since_flush, scalar,
                    wstack, wfield, emitted, output, topDone, sinceFlush, flushes, finals,
                    failed >>

\* if reader.has_annotations() { clear; push each; writer.set_annotations }
Annotations ==
    /\ pc = "annot"
    /\ IF cur.ann # << >>
       THEN /\ annotations' = cur.ann
            /\ wann' = cur.ann
            /\ wlog' = Log(wlog, Call("set_annotations", NoType, cur.ann, NoField,
                                      NoPayload))
       ELSE UNCHANGED << annotations, wann, wlog >>
    /\ pc' = "field"
    /\ UNCHANGED << profile, format, runVars, result, readerVars, values_since_flush, scalar, wstack,
                    wfield, emitted, output, topDone, sinceFlush, flushes, finals,
                    failed >>

\* mutant: the field name is attached inside every container
FieldNameInAnyContainer ==
    /\ pc = "field"
    /\ IF Depth(rstack) > 0
       THEN /\ wfield' = cur.field
            /\ wlog' = Log(wlog, Call("set_field_name", NoType, << >>, cur.field,
                                      NoPayload))
       ELSE UNCHANGED << wfield, wlog >>
    /\ pc' = "value"
    /\ UNCHANGED << profile, format, runVars, result, readerVars, localVars, wstack, wann, emitted,
                    output, topDone, sinceFlush, flushes, finals, failed >>

\* if reader.parent_type() == Some(Struct) { writer.set_field_name(field_name()?) }
FieldName ==
    /\ pc = "field"
    /\ IF ParentType(rstack) = "Struct"
       THEN /\ wfield' = cur.field
            /\ wlog' = Log(wlog, Call("set_field_name", NoType, << >>, cur.field,
                                      NoPayload))
       ELSE UNCHANGED << wfield, wlog >>
    /\ pc' = "value"
    /\ UNCHANGED << profile, format, runVars, result, readerVars, localVars, wstack, wann, emitted,
                    output, topDone, sinceFlush, flushes, finals, failed >>

\* mutant: every null is written as null.null
WriteNullUntyped ==
    /\ pc = "value"
    /\ cur.null
    /\ Emit("write_null", "Null", TRUE, NoPayload, Depth(wstack) = 0)
    /\ pc' = "next"
    /\ UNCHANGED << profile, format, runVars, result, readerVars, localVars, wstack, flushes, finals,
                    failed >>

\* if reader.is_null() { writer.write_null(ion_type)?; continue; }
WriteNull ==
    /\ pc = "value"
    /\ cur.null
    /\ Emit("write_null", cur.type, TRUE, NoPayload, Depth(wstack) = 0)
    /\ pc' = "next"
    /\ UNCHANGED << profile, format, runVars, result, readerVars, localVars, wstack, flushes, finals,
                    failed >>

\* reader.read_bool() ... reader.read_blob(), reader.read_f64()
ReadScalar ==
    /\ pc = "value"
    /\ ~cur.null
    /\ cur.type \in ScalarTypes
    /\ scalar' = cur.payload
    /\ pc' = "write"
    /\ UNCHANGED << profile, format, runVars, result, readerVars, values_since_flush, annotations,
                    writerVars, failed >>

\* writer.write_bool(..) ... writer.write_blob(..); a float as f32 or f64
WriteScalar ==
    /\ pc = "write"
    /\ Emit("write", cur.type, FALSE,
            IF cur.type = "Float" THEN NarrowFloat(scalar) ELSE scalar,
            Depth(wstack) = 0)
    /\ pc' = "count"
    /\ UNCHANGED << profile, format, runVars, result, readerVars, localVars, wstack, flushes, finals,
                    failed >>

\* mutant: a container is stepped into without looking at is_null
ReaderStepInNullToo ==
    /\ pc = "value"
    /\ cur.type \in ContainerTypes
    /\ rstack' = Append(rstack, cur.type)
    /\ pc' = "wstepin"
    /\ UNCHANGED << profile, format, runVars, result, cur, rcount, rnested, rann, delivered,
                    localVars, writerVars, failed >>

\* reader.step_in()
ReaderStepIn ==
    /\ pc = "value"
    /\ ~cur.null
    /\ cur.type \in ContainerTypes
    /\ rstack' = Append(rstack, cur.type)
    /\ pc' = "wstepin"
    /\ UNCHANGED << profile, format, runVars, result, cur, rcount, rnested, rann, delivered, localVars,
                    writerVars, failed >>

\* mutant: every container is opened as a list on the Writer
WriterStepInList ==
    /\ pc = "wstepin"
    /\ Emit("step_in", "List", FALSE, NoPayload, FALSE)
    /\ wstack' = Append(wstack, "List")
    /\ pc' = "count"
    /\ UNCHANGED << profile, format, runVars, result, readerVars, localVars, flushes, finals, failed >>

\* writer.step_in(List | SExpression | Struct)
WriterStepIn ==
    /\ pc = "wstepin"
    /\ Emit("step_in", cur.type, FALSE, NoPayload, FALSE)
    /\ wstack' = Append(wstack, cur.type)
    /\ pc' = "count"
    /\ UNCHANGED << profile, format, runVars, result, readerVars, localVars, flushes, finals, failed >>

\* reader.step_out()
ReaderStepOut ==
    /\ pc = "rstepout"
    /\ rstack' = Pop(rstack)
    /\ pc' = "wstepout"
    /\ UNCHANGED << profile, format, runVars, result, cur, rcount, rnested, rann, delivered, localVars,
                    writerVars, failed >>

\* mutant: writer.step_out() is missing
WriterStepOutForgotten ==
    /\ pc = "wstepout"
    /\ pc' = "count"
    /\ UNCHANGED << profile, format, runVars, result, readerVars, localVars, writerVars, failed >>

\* writer.step_out()
WriterStepOut ==
    /\ pc = "wstepout"
    /\ wstack' = Pop(wstack)
    /\ emitted' = EndOfContainer
    /\ output' = Log(output, EndOfContainer)
    /\ wlog' = Log(wlog, Call("step_out", NoType, << >>, NoField, NoPayload))
    /\ topDone' = IF Depth(wstack) = 1 THEN topDone + 1 ELSE topDone
    /\ sinceFlush' = IF Depth(wstack) = 1 THEN sinceFlush + 1 ELSE sinceFlush
    /\ pc' = "count"
    /\ UNCHANGED << profile, format, runVars, result, readerVars, localVars, wann, wfield, flushes,
                    finals, failed >>

\* mutant: the depth test of the counting block is missing
CountValueAtAnyDepth ==
    /\ pc = "count"
    /\ values_since_flush' = values_since_flush + 1
    /\ pc' = IF values_since_flush + 1 = FLUSH_EVERY_N THEN "flush" ELSE "next"
    /\ UNCHANGED << profile, format, runVars, result, readerVars, annotations, scalar,
                    writerVars, failed >>

\* if reader.depth() == 0 { values_since_flush += 1; if == FLUSH_EVERY_N ... }
CountValue ==
    /\ pc = "count"
    /\ IF Depth(rstack) = 0
       THEN /\ values_since_flush' = values_since_flush + 1
            /\ pc' = IF values_since_flush + 1 = FLUSH_EVERY_N THEN "flush" ELSE "next"
       ELSE /\ values_since_flush' = values_since_flush
            /\ pc' = "next"
    /\ UNCHANGED << profile, format, runVars, result, readerVars, annotations, scalar, writerVars,
                    failed >>

\* writer.flush()?; values_since_flush = 0;
Flush ==
    /\ pc = "flush"
    /\ wlog' = Log(wlog, Call("flush", NoType, << >>, NoField, NoPayload))
    /\ flushes' = flushes + 1
    /\ sinceFlush' = 0
    /\ values_since_flush' = 0
    /\ pc' = "next"
    /\ UNCHANGED << profile, format, runVars, result, readerVars, annotations, scalar, wstack, wann,
                    wfield, emitted, output, topDone, finals, failed >>

\* mutant: the final flush is made only when values are pending
FinalFlushIfPending ==
    /\ pc = "final"
    /\ IF values_since_flush > 0
       THEN /\ wlog' = Log(wlog, Call("flush", NoType, << >>, NoField, NoPayload))
            /\ finals' = finals + 1
            /\ sinceFlush' = 0
       ELSE UNCHANGED << wlog, finals, sinceFlush >>
    /\ pc' = "done"
    /\ result' = "Ok"
    /\ UNCHANGED << profile, format, runVars, readerVars, localVars, wstack, wann, wfield, emitted,
                    output, topDone, flushes, failed >>

\* writer.flush()?; Ok(())
FinalFlush ==
    /\ pc = "final"
    /\ wlog' = Log(wlog, Call("flush", NoType, << >>, NoField, NoPayload))
    /\ finals' = finals + 1
    /\ sinceFlush' = 0
    /\ pc' = "done"
    /\ result' = "Ok"
    /\ UNCHANGED << profile, format, runVars, readerVars, localVars, wstack, wann, wfield, emitted,
                    output, topDone, flushes, failed >>

\* mutant: the output is created anew for every input file
NextSourceTruncatesOutput ==
    /\ pc = "done"
    /\ result = "Ok"
    /\ source < NumSources
    /\ prior' = << >>
    /\ consumed' = Append(consumed, delivered)
    /\ pc' = "open"
    /\ result' = "none"
    /\ rstack' = << >> /\ cur' = NoValue /\ rnested' = 0 /\ delivered' = << >>
    /\ values_since_flush' = 0 /\ annotations' = << >> /\ scalar' = NoPayload
    /\ wstack' = << >> /\ wann' = << >> /\ wfield' = NoField /\ emitted' = NoValue
    /\ output' = << >> /\ wlog' = << >>
    /\ topDone' = 0 /\ sinceFlush' = 0 /\ flushes' = 0 /\ finals' = 0
    /\ UNCHANGED << profile, format, inputs, source, writers, rcount, rann, failed >>

\* write_all_in_format(..)? returned Ok and another input file is left: the
\* pass's Reader, Writer and locals are dropped, the output keeps what it got
NextSource ==
    /\ pc = "done"
    /\ result = "Ok"
    /\ source < NumSources
    /\ prior' = prior \o output
    /\ consumed' = Append(consumed, delivered)
    /\ pc' = "open"
    /\ result' = "none"
    /\ rstack' = << >> /\ cur' = NoValue /\ rnested' = 0 /\ delivered' = << >>
    /\ values_since_flush' = 0 /\ annotations' = << >> /\ scalar' = NoPayload
    /\ wstack' = << >> /\ wann' = << >> /\ wfield' = NoField /\ emitted' = NoValue
    /\ output' = << >> /\ wlog' = << >>
    /\ topDone' = 0 /\ sinceFlush' = 0 /\ flushes' = 0 /\ finals' = 0
    /\ UNCHANGED << profile, format, inputs, source, writers, rcount, rann, failed >>

\* output.flush()?; Ok(())
OutputFlush ==
    /\ pc = "done"
    /\ result = "Ok"
    /\ source = NumSources
    /\ pc' = "exit"
    /\ UNCHANGED << profile, format, runVars, result, readerVars, localVars, writerVars,
                    failed >>

\* the steps of a run on which the pending call succeeds
Proceed ==
    \/ OpenSource
    \/ BuildWriter
    \/ NextValue
    \/ NextEndOfContainer
    \/ NextEndOfStream
    \/ Annotations
    \/ FieldName
    \/ WriteNull
    \/ ReadScalar
    \/ WriteScalar
    \/ ReaderStepIn
    \/ WriterStepIn
    \/ ReaderStepOut
    \/ WriterStepOut
    \/ CountValue
    \/ Flush
    \/ FinalFlush
    \/ NextSource
    \/ OutputFlush

Next ==
    \/ Proceed
    \/ OperationFails

Spec ==
    /\ \/ Init("nesting") \/ Init("annotated") \/ Init("cadence") \/ Init("float")
       \/ Init("sources")
    /\ [][Next]_vars

\* the program is one thread that runs until it returns: a step that can be
\* taken is taken.  The runs are those in which the flush counter's value at
\* the end of the stream varies: the long streams and the several sources
LiveSpec ==
    /\ Init("cadence") \/ Init("sources")
    /\ [][Next]_vars
    /\ WF_vars(Proceed)

-----------------------------------------------------------------------------
(* Properties.                                                             *)

Last(seq) == seq[Len(seq)]
IsContainerStart(e) == e.k = "value" /\ e.type \in ContainerTypes /\ ~e.null
IsEmission(c) == c.op \in {"write_null", "write", "step_in"}
FlushCall == Call("flush", NoType, << >>, NoField, NoPayload)
StepOutCall == Call("step_out", NoType, << >>, NoField, NoPayload)

\* what C1 compares of an event: kind (value or end of container, hence the
\* nesting), type tag, nullness, ordered annotations, field name
Shape(e) == << e.k, e.type, e.null, e.ann, e.field >>
Shapes(seq) == [i \in 1..Len(seq) |-> Shape(seq[i])]

\* kinds of the containers open on the Writer after its first n calls
RECURSIVE OpenAfter(_, _)
OpenAfter(calls, n) ==
    IF n = 0 THEN << >>
    ELSE LET below == OpenAfter(calls, n - 1)
         IN  IF calls[n].op = "step_in" THEN Append(below, calls[n].type)
             ELSE IF calls[n].op = "step_out" THEN Pop(below)
             ELSE below

\* the list of the set_annotations call made for the emission calls[j]
AnnotationsSetFor(calls, j) ==
    IF j > 1 /\ calls[j - 1].op = "set_annotations" THEN calls[j - 1].ann
    ELSE IF j > 2 /\ calls[j - 1].op = "set_field_name"
                  /\ calls[j - 2].op = "set_annotations" THEN calls[j - 2].ann
    ELSE << >>

\* the position in `delivered` of the event the Writer call calls[j] answers
EventIndex(calls, j) ==
    Cardinality({ k \in 1..j : IsEmission(calls[k]) \/ calls[k].op = "step_out" })

\* C1: a pass in which no call fails hands the Writer the value sequence the
\* Reader delivered: as many events, in the same order, each with the same
\* type tag, nesting, ordered annotations, field name and nullness.
C1_RoundTrip ==
    (pc = "done" /\ result = "Ok") => Shapes(output) = Shapes(delivered)

C1_Witness ==
    /\ pc = "done"
    /\ result = "Ok"
    /\ Len(output) = 4
    /\ output[1].type = "Struct" /\ ~output[1].null
    /\ output[2].type = "SExpression" /\ output[2].null /\ output[2].field = "g"
    /\ output[3].k = "end"
    /\ output[4].type = "Boolean"

\* C2 as stated: Reader depth equals Writer depth in every reachable state.
C2_DepthEqualEverywhere == Depth(rstack) = Depth(wstack)

\* C2 as amended: the depths are equal except between the Reader's step and
\* the Writer's matching step (and in an abort at that Writer step), where
\* the Reader is exactly one level ahead.
C2_DepthSymmetry ==
    /\ pc \notin {"wstepin", "wstepout", "done"} => Depth(rstack) = Depth(wstack)
    /\ pc = "wstepin" => Depth(rstack) = Depth(wstack) + 1
    /\ pc = "wstepout" => Depth(rstack) + 1 = Depth(wstack)
    /\ pc = "done" =>
         CASE failed = "writer.step_in" -> Depth(rstack) = Depth(wstack) + 1
           [] failed = "writer.step_out" -> Depth(rstack) + 1 = Depth(wstack)
           [] OTHER -> Depth(rstack) = Depth(wstack)

C2_Witness ==
    /\ pc = "count"
    /\ rstack = << "Struct", "List" >>
    /\ wstack = << "Struct", "List" >>

\* C3: N top-level values of any kind get floor(N/100) intermediate flushes,
\* the k-th right after the (100*k)-th top-level value is emitted and before
\* the next one starts, and a pass without failures ends with one final flush.
C3_FlushCadence ==
    /\ (failed = "" /\ pc \notin {"count", "flush"}) =>
         flushes = topDone \div FLUSH_EVERY_N
    /\ (pc = "done" /\ result = "Ok") => finals = 1

\* C4: at most 100 top-level values are completely emitted since the last
\* Writer flush.
C4_BoundedBuffering == sinceFlush <= FLUSH_EVERY_N

\* C5: every value the Writer accepts carries exactly the annotations the
\* Reader reported for it, in the same order, duplicates kept; when there are
\* any, they are the list of the set_annotations call just before it.
C5_AnnotationOrder ==
    /\ \A i \in 1..Len(output) :
         /\ i <= Len(delivered)
         /\ output[i].ann = delivered[i].ann
    /\ \A j \in 1..Len(wlog) :
         IsEmission(wlog[j]) =>
           AnnotationsSetFor(wlog, j) = delivered[EventIndex(wlog, j)].ann

C5_Witness ==
    /\ Len(output) = 2
    /\ output[1].ann = << "b" >>
    /\ output[2].ann = << "a" >>
    /\ output[2].field = "f"

\* C6: a field name is attached to a value (set_field_name right before its
\* emission) if and only if the value's immediately enclosing container is a
\* struct; never at top level or directly inside a list or s-expression.
C6_FieldNameScoping ==
    /\ \A j \in 1..Len(wlog) :
         IsEmission(wlog[j]) =>
           ((j > 1 /\ wlog[j - 1].op = "set_field_name")
              <=> ParentType(OpenAfter(wlog, j - 1)) = "Struct")
    /\ \A j \in 1..Len(wlog) :
         wlog[j].op = "set_field_name" =>
           /\ ParentType(OpenAfter(wlog, j)) = "Struct"
           /\ wlog[j].field \in FieldNames
           /\ j < Len(wlog) => IsEmission(wlog[j + 1])
    /\ \A i \in 1..Len(output) :
         (output[i].k = "value" /\ i <= Len(delivered)) =>
           output[i].field = delivered[i].field

C6_Witness ==
    /\ pc = "count"
    /\ wstack = << "Struct", "List" >>
    /\ Len(output) = 3
    /\ output[2].field = "f"
    /\ output[3].type = "Boolean"
    /\ output[3].field = NoField

\* the state right after writer.write_f32 / write_f64 of the float in `cur`
FloatWritten ==
    /\ pc = "count"
    /\ cur.k = "value" /\ cur.type = "Float" /\ ~cur.null
    /\ emitted.type = "Float"

RoundTrips(float64) == CastF32ToF64(CastF64ToF32(float64)) = float64

\* C7 as stated: a float (signed zeros, infinities and NaNs included) is
\* emitted in 32-bit form if casting it to 32 bits and back reproduces its
\* exact bit pattern, and in its original 64-bit form otherwise.
C7_NarrowIffBitIdentical ==
    FloatWritten =>
      emitted.payload = IF RoundTrips(cur.payload) THEN CastF64ToF32(cur.payload)
                        ELSE cur.payload

\* C7 as amended: a float that is not a NaN is emitted in 32-bit form if the
\* cast to 32 bits and back reproduces its exact bit pattern and in its
\* original 64-bit form otherwise; a NaN is always emitted in 64-bit form.
C7_NarrowIffLossless ==
    FloatWritten =>
      emitted.payload = IF RoundTrips(cur.payload) /\ ~IsNaN64(cur.payload)
                        THEN CastF64ToF32(cur.payload)
                        ELSE cur.payload

\* the negative of the smallest 32-bit subnormal, written as f32
C7_Witness ==
    /\ FloatWritten
    /\ cur.payload = F64(1, 874, 0, 0)
    /\ emitted.payload = F32(1, 0, 1)

\* C8: once a Reader or Writer call has failed, write_all_values makes no
\* further step and returns that failure; it returns Ok only if none failed.
C8_AbortOnFirstFailure ==
    /\ [](failed # "" => (pc = "done" /\ result = failed))
    /\ [](result = "Ok" => failed = "")
    /\ [][/\ failed = ""
          /\ result # "none" => (pc' \in {"open", "exit"} \/ failed' = "output.flush")]_vars

C8_Witness ==
    /\ failed = "writer.flush"
    /\ pc = "done"
    /\ Len(output) = 2
    /\ wstack = << >>

\* C9: when the Reader's first advance reports end of stream, the Writer gets
\* no value, step, annotations or field name, exactly one flush, and the
\* pass returns Ok.
C9_EmptyStream ==
    (rcount = 0 /\ pc \in {"final", "done"} /\ failed = "") =>
      /\ emitted = NoValue /\ output = << >>
      /\ wann = << >> /\ wfield = NoField /\ wstack = << >>
      /\ flushes = 0
      /\ pc = "final" => (finals = 0 /\ wlog = << >>)
      /\ pc = "done" =>
           /\ result = "Ok"
           /\ finals = 1
           /\ Records(profile) => wlog = << FlushCall >>

C9_Witness ==
    /\ profile = "nesting"
    /\ rcount = 0
    /\ pc = "done"
    /\ result = "Ok"

\* the Reader has just reported a non-null container with no children and
\* the Writer has stepped out of it
EmptyContainerCopied ==
    /\ Records(profile)
    /\ pc = "count"
    /\ emitted.k = "end"
    /\ Len(delivered) >= 2
    /\ Last(delivered).k = "end"
    /\ IsContainerStart(delivered[Len(delivered) - 1])

\* C10: for a non-null container with zero children, at any depth, the Writer
\* gets step_in of the same kind immediately followed by step_out, nothing
\* in between.
C10_EmptyContainer ==
    EmptyContainerCopied =>
      /\ Len(wlog) >= 2
      /\ Last(wlog) = StepOutCall
      /\ wlog[Len(wlog) - 1] =
           Call("step_in", delivered[Len(delivered) - 1].type, << >>, NoField,
                NoPayload)
      /\ Len(output) = Len(delivered)
      /\ Shape(output[Len(output) - 1]) = Shape(delivered[Len(delivered) - 1])
      /\ Last(output).k = "end"

C10_Witness ==
    /\ EmptyContainerCopied
    /\ delivered[Len(delivered) - 1].type = "SExpression"
    /\ wstack = << "Struct" >>

-----------------------------------------------------------------------------
\* C11: on a finite stream the pass ends, and when no call failed it ends with
\* exactly one final flush, made whatever the flush counter holds (0 included,
\* right after an intermediate flush); that flush is the Writer's last call
C11_TerminatesWithFinalFlush ==
    /\ (pc = "build") ~> (pc = "done")
    /\ [](pc = "final" => finals = 0)
    /\ []((pc = "done" /\ failed = "") =>
            /\ result = "Ok"
            /\ finals = 1
            /\ Records(profile) =>
                 /\ Last(wlog) = FlushCall
                 /\ Cardinality({ j \in 1..Len(wlog) : wlog[j] = FlushCall }) = flushes + 1)
    /\ [][finals = 1 => (wlog' = wlog \/ pc' = "open")]_vars

\* a stream of exactly FLUSH_EVERY_N counted values: the counter is 0 at the
\* end of the stream, and the final flush is made all the same
C11_Witness ==
    /\ pc = "done"
    /\ result = "Ok"
    /\ flushes = 1
    /\ values_since_flush = 0
    /\ finals = 1

-----------------------------------------------------------------------------
RECURSIVE Concat(_)
Concat(seqs) == IF seqs = << >> THEN << >> ELSE Head(seqs) \o Concat(Tail(seqs))

\* what the output destination has received, over all passes
Destination == prior \o output

\* the statement as worded: one Writer serves every input source
C12_OneWriterShared == writers <= 1

\* C12: run makes one pass per input source, in the order given, each with a
\* Reader and a Writer of its own over the one output destination, which
\* ends up holding the sources' value sequences one after the other
C12_SourcesConcatenated ==
    /\ [](pc = "build" =>
            /\ source = Len(consumed) + 1
            /\ writers = Len(consumed)
            /\ rstack = << >> /\ cur = NoValue /\ delivered = << >>
            /\ wstack = << >> /\ wann = << >> /\ wfield = NoField /\ wlog = << >>
            /\ values_since_flush = 0)
    /\ []((pc = "exit" /\ failed = "") =>
            /\ source = NumSources
            /\ writers = NumSources
            /\ Len(consumed) = NumSources - 1
            /\ Records(profile) =>
                 Shapes(Destination) = Shapes(Concat(consumed) \o delivered))
    /\ [][source' # source => (pc = "open" /\ source' = source + 1)]_vars
    /\ [][\E n \in 0..Len(Destination') : SubSeq(Destination', 1, n) = Destination]_vars

\* two input files with values in both have been transcoded
C12_Witness ==
    /\ pc = "exit"
    /\ failed = ""
    /\ inputs = 2
    /\ prior # << >>
    /\ output # << >>

-----------------------------------------------------------------------------
\* C13: a value whose null flag is set, of any type tag, the container tags
\* included, is emitted by exactly one write_null of the same type tag with
\* its annotations and field name; nothing is read from it and neither side
\* steps in
C13_TypedNull ==
    [][(pc = "value" /\ cur.null) =>
         /\ pc' \in {"next", "done"}
         /\ rstack' = rstack /\ wstack' = wstack /\ scalar' = scalar
         /\ pc' = "next" =>
              /\ emitted' = Value(cur.type, TRUE, cur.ann, cur.field, NoPayload)
              /\ Records(profile) =>
                   /\ output' = Append(output, emitted')
                   /\ wlog' = Append(wlog, Call("write_null", cur.type, << >>, NoField,
                                                NoPayload))
         /\ pc' = "done" =>
              /\ failed' = "writer.write_null"
              /\ emitted' = emitted /\ output' = output /\ wlog' = wlog]_vars

\* an annotated null struct that is a field of a struct has been written
C13_Witness ==
    /\ pc = "next"
    /\ cur = Value("Struct", TRUE, << "b", "a" >>, "f", NoPayload)
    /\ emitted = cur
    /\ rstack = << "Struct" >>
    /\ wstack = << "Struct" >>

-----------------------------------------------------------------------------
\* C14: at the end of every loop iteration (a value emitted, a container
\* entered on both sides or left on both sides) the Writer has the same
\* containers open as the Reader, in kind and order, hence the same depth
C14_LockStep ==
    (pc \in {"next", "count", "flush", "final"}) =>
      /\ wstack = rstack
      /\ Depth(wstack) = Depth(rstack)

\* an s-expression inside a struct has been entered on both sides
C14_Witness ==
    /\ pc = "next"
    /\ emitted.k = "value"
    /\ emitted.type = "SExpression"
    /\ rstack = << "Struct", "SExpression" >>
    /\ wstack = << "Struct", "SExpression" >>

-----------------------------------------------------------------------------
\* the Writer calls of the given kind among the first n
CallsOf(calls, op, n) == { j \in 1..n : calls[j].op = op }

\* C15: when write_all_values returns Ok the Reader and the Writer are at
\* depth 0, and every step_in of the Writer has been closed by one later
\* step_out: no pass succeeds with a container left open
C15_ClosedAtEnd ==
    (result = "Ok") =>
      /\ Depth(rstack) = 0
      /\ Depth(wstack) = 0
      /\ Records(profile) =>
           /\ OpenAfter(wlog, Len(wlog)) = << >>
           /\ Cardinality(CallsOf(wlog, "step_in", Len(wlog)))
                = Cardinality(CallsOf(wlog, "step_out", Len(wlog)))
           /\ \A n \in 1..Len(wlog) :
                wlog[n].op = "step_out" => OpenAfter(wlog, n - 1) # << >>

\* a pass over two nested containers has returned Ok
C15_Witness ==
    /\ pc = "done"
    /\ result = "Ok"
    /\ Cardinality(CallsOf(wlog, "step_in", Len(wlog))) = 2
    /\ Len(wlog) > 2
    /\ wlog[2].op = "step_in"

-----------------------------------------------------------------------------
\* the value is about to be handed to the Writer: write_null, a scalar write
\* or step_in is the next Writer call
AtEmission ==
    \/ pc = "value" /\ cur.null
    \/ pc = "write"
    \/ pc = "wstepin"

\* the annotations of the last of the events that has any
LastAnnotated(events) ==
    LET with == { i \in 1..Len(events) : events[i].ann # << >> }
    IN  IF with = {} THEN << >>
        ELSE events[CHOOSE i \in with : \A j \in with : j <= i].ann

\* the statement as worded: at every emission the buffer holds the current
\* value's annotations, none for a value that has none
C16_BufferIsCurrent == AtEmission => annotations = cur.ann

\* C16: at the emission of a value that has annotations the buffer holds
\* exactly these, in order; at the emission of a value that has none the
\* buffer still holds those of the last annotated value of the pass (none
\* if there was no such value), and the Writer is given none of them
C16_BufferIsLastAnnotated ==
    AtEmission =>
      /\ cur.ann # << >> => (annotations = cur.ann /\ wann = cur.ann)
      /\ cur.ann = << >> => wann = << >>
      /\ Records(profile) => annotations = LastAnnotated(delivered)
      /\ ~Records(profile) => annotations = << >>

\* a boolean without annotations is written after a value annotated a::b
C16_Witness ==
    /\ pc = "write"
    /\ cur.ann = << >>
    /\ annotations = << "a", "b" >>
    /\ wann = << >>

-----------------------------------------------------------------------------
IsPrefix(a, b) == Len(a) <= Len(b) /\ SubSeq(b, 1, Len(a)) = a

\* C17: the step on which a call fails changes nothing on the Writer (what
\* it was handed, its open containers, its pending annotations and field
\* name) nor in the output, and a pass only ever appends to the Writer's
\* history: the history at the abort is a prefix of the one a pass without
\* the failure goes on to produce
C17_NoRollback ==
    /\ [][(failed = "" /\ failed' # "") => (writerVars' = writerVars /\ prior' = prior)]_vars
    /\ [][pc' # "open" => (IsPrefix(wlog, wlog') /\ IsPrefix(output, output'))]_vars
    /\ []((failed # "" /\ Records(profile)) =>
            /\ IsPrefix(Shapes(output), Shapes(delivered))
            /\ OpenAfter(wlog, Len(wlog)) = wstack)

\* reading a scalar failed inside a struct inside a list: both containers
\* stay open on the Writer, with the field name set for the scalar
C17_Witness ==
    /\ failed = "reader.read"
    /\ pc = "done"
    /\ wstack = << "List", "Struct" >>
    /\ Len(output) = 2
    /\ wfield = "g"

-----------------------------------------------------------------------------
\* the 64-bit value a written float denotes
Widened(float) == IF float.w = 32 THEN CastF32ToF64(float) ELSE float

\* C18: whichever form a float is written in, the value written, widened
\* back to 64 bits, is the value read: same sign, exponent and fraction
C18_FloatValuePreserved ==
    FloatWritten =>
      /\ emitted.payload.w \in {32, 64}
      /\ Widened(emitted.payload) = cur.payload

\* 1 + 2^-52, which 32 bits cannot hold, is written in 64-bit form
C18_Witness ==
    /\ FloatWritten
    /\ cur.payload = F64(0, 1023, 0, 1)
    /\ emitted.payload.w = 64

-----------------------------------------------------------------------------
\* C19: the Writer is flushed, by the counter or at the end of the stream,
\* only while the Reader and the Writer are at depth 0; inside a container
\* the counter stays below the threshold, so a top-level container that is
\* the hundredth value is flushed after it has been closed
C19_FlushAtTopLevel ==
    /\ (pc \in {"flush", "final"}) => (Depth(rstack) = 0 /\ Depth(wstack) = 0)
    /\ (Depth(rstack) > 0 \/ Depth(wstack) > 0) => values_since_flush < FLUSH_EVERY_N
    /\ Records(profile) =>
         \A j \in 1..Len(wlog) : wlog[j] = FlushCall => OpenAfter(wlog, j) = << >>

\* the hundredth counted value is a container with a child: the flush is
\* pending right after the step out of it
C19_Witness ==
    /\ pc = "flush"
    /\ emitted = EndOfContainer
    /\ rnested = 1
    /\ values_since_flush = FLUSH_EVERY_N
    /\ Depth(wstack) = 0

====
